---- MODULE Spec2Model ----
(***************************************************************************)
(* Model of xbee/digimesh.py: the DigiMesh schema tables (api_commands,    *)
(* api_responses) and the post-parse hook DigiMesh._parse_FN_at_response.  *)
(*                                                                         *)
(* Byte strings are sequences of integers 0..255.  A Python slice s[a:b]  *)
(* is the operator Slice(s, a, b), which clamps at the end of s the way    *)
(* Python does.  _parse_FN_at_response is unfolded into one action per     *)
(* group of statements; the while loop of lines 153-154 is one action per  *)
(* iteration.                                                              *)
(***************************************************************************)
EXTENDS Integers, Sequences, FiniteSets, TLC

VARIABLES
    pc,                     \* position in the running call
    packet_info,            \* argument of _parse_FN_at_response
    null_terminator_index,  \* local of _parse_FN_at_response
    result,                 \* local dict `result` of _parse_FN_at_response
    outcome,                \* how the call ended: "None", "result", "ValueError"
    cmd,                    \* argument of the command builder
    kwargs,                 \* field overrides given to the command builder
    packet                  \* bytes produced by the command builder

vars == <<pc, packet_info, null_terminator_index, result, outcome, cmd, kwargs, packet>>

----------------------------------------------------------------------------
(* Bounds of the explored inputs.                                          *)

\* longest `parameter` byte string explored
MaxLen == 25
\* most zero bytes a `parameter` byte string holds
MaxZeros == 2
\* how many reads past the end of `parameter` the scan is followed for
MaxOverrun == 2

----------------------------------------------------------------------------
(* Byte strings.                                                           *)

Min(a, b) == IF a < b THEN a ELSE b
Max(a, b) == IF a > b THEN a ELSE b

\* Python s[a:b] for 0 <= a, 0 <= b: clamped at len(s), empty when a >= b.
Slice(s, a, b) == SubSeq(s, a + 1, Min(b, Len(s)))

\* bytes.lower(): ASCII 'A'..'Z' become 'a'..'z', every other byte is kept.
Lower(b) == [i \in 1..Len(b) |-> IF b[i] \in 65..90 THEN b[i] + 32 ELSE b[i]]

\* the byte-string literals of the source
b_fn == <<102, 110>>
b_nul == <<0>>

----------------------------------------------------------------------------
(* Schema tables.                                                          *)

\* the three kinds of 'len' in a field descriptor
Fixed(n) == [kind |-> "fixed", n |-> n]
LenNone == [kind |-> "None", n |-> 0]
NullTerminated == [kind |-> "null_terminated", n |-> 0]

\* a command field; default <<>> is None, <<d>> is the byte string d
CField(nm, ln, df) == [name |-> nm, len |-> ln, default |-> df]
\* a response field
RField(nm, ln) == [name |-> nm, len |-> ln]

\* Faulty variant of api_commands (tx lists reserved before dest_addr), used
\* to test that the properties read the table.
api_commands_tx_unordered ==
    [at |-> <<CField("id", Fixed(1), <<(<<8>>)>>),
              CField("frame_id", Fixed(1), <<(<<0>>)>>),
              CField("command", Fixed(2), <<>>),
              CField("parameter", LenNone, <<>>)>>,
     queued_at |-> <<CField("id", Fixed(1), <<(<<9>>)>>),
                     CField("frame_id", Fixed(1), <<(<<0>>)>>),
                     CField("command", Fixed(2), <<>>),
                     CField("parameter", LenNone, <<>>)>>,
     remote_at |-> <<CField("id", Fixed(1), <<(<<23>>)>>),
                     CField("frame_id", Fixed(1), <<(<<0>>)>>),
                     CField("dest_addr_long", Fixed(8), <<>>),
                     CField("reserved", Fixed(2), <<(<<255, 254>>)>>),
                     CField("options", Fixed(1), <<(<<2>>)>>),
                     CField("command", Fixed(2), <<>>),
                     CField("parameter", LenNone, <<>>)>>,
     tx |-> <<CField("id", Fixed(1), <<(<<16>>)>>),
              CField("frame_id", Fixed(1), <<(<<0>>)>>),
              CField("reserved", Fixed(2), <<(<<255, 254>>)>>),
              CField("dest_addr", Fixed(8), <<>>),
              CField("broadcast_radius", Fixed(1), <<(<<0>>)>>),
              CField("options", Fixed(1), <<(<<0>>)>>),
              CField("data", LenNone, <<>>)>>]

api_commands ==
    [at |-> <<CField("id", Fixed(1), <<(<<8>>)>>),
              CField("frame_id", Fixed(1), <<(<<0>>)>>),
              CField("command", Fixed(2), <<>>),
              CField("parameter", LenNone, <<>>)>>,
     queued_at |-> <<CField("id", Fixed(1), <<(<<9>>)>>),
                     CField("frame_id", Fixed(1), <<(<<0>>)>>),
                     CField("command", Fixed(2), <<>>),
                     CField("parameter", LenNone, <<>>)>>,
     remote_at |-> <<CField("id", Fixed(1), <<(<<23>>)>>),
                     CField("frame_id", Fixed(1), <<(<<0>>)>>),
                     CField("dest_addr_long", Fixed(8), <<>>),
                     CField("reserved", Fixed(2), <<(<<255, 254>>)>>),
                     CField("options", Fixed(1), <<(<<2>>)>>),
                     CField("command", Fixed(2), <<>>),
                     CField("parameter", LenNone, <<>>)>>,
     tx |-> <<CField("id", Fixed(1), <<(<<16>>)>>),
              CField("frame_id", Fixed(1), <<(<<0>>)>>),
              CField("dest_addr", Fixed(8), <<>>),
              CField("reserved", Fixed(2), <<(<<255, 254>>)>>),
              CField("broadcast_radius", Fixed(1), <<(<<0>>)>>),
              CField("options", Fixed(1), <<(<<0>>)>>),
              CField("data", LenNone, <<>>)>>]

\* Keys of api_responses.  A bytes key b"\x88" is the byte string <<136>>; the
\* str key 'parsing' is the string of its character codes.
k88 == <<136>>
k8A == <<138>>
k8B == <<139>>
k90 == <<144>>
k95 == <<149>>
k97 == <<151>>
k_parsing == <<112, 97, 114, 115, 105, 110, 103>>

\* A value stored in api_responses: a schema dict (with or without a
\* 'parsing' entry) or a bare list of parsing rules.
SchemaDict(nm, st, pr) ==
    [type |-> "dict", name |-> nm, structure |-> st, parsing |-> pr]
RuleList(pr) ==
    [type |-> "list", name |-> "", structure |-> <<>>, parsing |-> pr]

\* the rule ('parameter', lambda self, original: self._parse_FN_at_response(original))
FN_rule == [field |-> "parameter", hook |-> "_parse_FN_at_response"]

api_responses ==
    (k88 :> SchemaDict("at_response",
                <<RField("frame_id", Fixed(1)),
                  RField("command", Fixed(2)),
                  RField("status", Fixed(1)),
                  RField("parameter", LenNone)>>,
                <<FN_rule>>))
    @@ (k8A :> SchemaDict("status",
                <<RField("status", Fixed(1))>>,
                <<>>))
    @@ (k8B :> SchemaDict("tx_status",
                <<RField("frame_id", Fixed(1)),
                  RField("reserved", Fixed(2)),
                  RField("retries", Fixed(1)),
                  RField("deliver_status", Fixed(1)),
                  RField("discover_status", Fixed(1))>>,
                <<>>))
    @@ (k90 :> SchemaDict("rx",
                <<RField("frame_id", Fixed(1)),
                  RField("source_addr", Fixed(7)),
                  RField("reserved", Fixed(2)),
                  RField("options", Fixed(1)),
                  RField("data", LenNone)>>,
                <<>>))
    @@ (k95 :> SchemaDict("node_id",
                <<RField("source_addr_long", Fixed(8)),
                  RField("network_addr", Fixed(2)),
                  RField("options", Fixed(1)),
                  RField("source_addr", Fixed(2)),
                  RField("network_addr_long", Fixed(8)),
                  RField("node_id", NullTerminated),
                  RField("parent", Fixed(2)),
                  RField("unknown", LenNone)>>,
                <<>>))
    @@ (k97 :> SchemaDict("remote_at_response",
                <<RField("frame_id", Fixed(1)),
                  RField("source_addr", Fixed(8)),
                  RField("reserved", Fixed(2)),
                  RField("command", Fixed(2)),
                  RField("status", Fixed(1)),
                  RField("parameter", LenNone)>>,
                <<>>))
    @@ (k_parsing :> RuleList(<<FN_rule>>))

----------------------------------------------------------------------------
(* DigiMesh._parse_FN_at_response, lines 141-177.                          *)

\* line 146: the ids the hook accepts
HookIds == {"at_response", "at_remote_response"}

\* line 146: the condition guarding the whole body
Applies(info) ==
    /\ info.id \in HookIds
    /\ Lower(info.command) = b_fn
    /\ info.status = b_nul

\* lines 149-150: the two fields at fixed offsets
HeadFields(P) ==
    [source_addr |-> Slice(P, 0, 2),
     source_addr_long |-> Slice(P, 2, 10)]

\* line 153: the loop condition, a one-byte slice compared with b'\x00'
ScanContinues(P, i) == Slice(P, i, i + 1) # b_nul

\* lines 156-161: the fields placed relative to the terminator index t
\* faulty variant: the terminator byte is not skipped
BodyFieldsNoSkip(P, t) ==
    [node_identifier |-> Slice(P, 10, t),
     parent_address |-> Slice(P, t, t + 2),
     device_type |-> Slice(P, t + 2, t + 3),
     status |-> Slice(P, t + 3, t + 4),
     profile_id |-> Slice(P, t + 4, t + 6),
     manufacturer |-> Slice(P, t + 6, t + 8)]

BodyFields(P, t) ==
    [node_identifier |-> Slice(P, 10, t),
     parent_address |-> Slice(P, t + 1, t + 3),
     device_type |-> Slice(P, t + 3, t + 4),
     status |-> Slice(P, t + 4, t + 5),
     profile_id |-> Slice(P, t + 5, t + 7),
     manufacturer |-> Slice(P, t + 7, t + 9)]

\* lines 163-172: the optional trailing layout, chosen by the bytes left
\* after offset t+9; `advance` is what the "hack" adds to the index
\* faulty variant: rssi is stored in the 4-byte layout too
TrailingRssiAlways(P, t) ==
    IF Len(P) - t - 9 = 4 \/ Len(P) - t - 9 = 5
    THEN [fields |-> [device_type_id |-> Slice(P, t + 9, t + 13),
                      rssi |-> Slice(P, t + 13, t + 14)],
          advance |-> Len(P) - t - 9]
    ELSE [fields |-> <<>>, advance |-> 0]

\* faulty variant: the 4-byte layout stores nothing
TrailingNoDeviceTypeOn4(P, t) ==
    IF Len(P) - t - 9 = 4
    THEN [fields |-> <<>>, advance |-> 4]
    ELSE IF Len(P) - t - 9 = 5
    THEN [fields |-> [device_type_id |-> Slice(P, t + 9, t + 13),
                      rssi |-> Slice(P, t + 13, t + 14)],
          advance |-> 5]
    ELSE [fields |-> <<>>, advance |-> 0]

Trailing(P, t) ==
    IF Len(P) - t - 9 = 4
    THEN [fields |-> [device_type_id |-> Slice(P, t + 9, t + 13)],
          advance |-> 4]
    ELSE IF Len(P) - t - 9 = 5
    THEN [fields |-> [device_type_id |-> Slice(P, t + 9, t + 13),
                      rssi |-> Slice(P, t + 13, t + 14)],
          advance |-> 5]
    ELSE [fields |-> <<>>, advance |-> 0]

\* line 174: the final length check, on the index after the "hack"
\* faulty variants: no check at all; only a parameter that is too short fails
LengthMismatchNever(P, i) == FALSE
LengthMismatchOnlyShort(P, i) == i + 9 > Len(P)
LengthMismatch(P, i) == i + 9 # Len(P)

\* line 146, condition false: the function falls off its end and returns None
ReturnNone ==
    /\ pc = "start"
    /\ ~Applies(packet_info)
    /\ pc' = "done"
    /\ outcome' = "None"
    /\ UNCHANGED <<packet_info, null_terminator_index, result, cmd, kwargs, packet>>

\* lines 146-152, condition true
Begin ==
    /\ pc = "start"
    /\ Applies(packet_info)
    /\ result' = HeadFields(packet_info.parameter)
    /\ null_terminator_index' = 10
    /\ pc' = "scan"
    /\ UNCHANGED <<packet_info, outcome, cmd, kwargs, packet>>

\* lines 153-154: one iteration of the while loop.  Past the end of the
\* parameter the slice is empty, so the loop goes on; the model follows it
\* for MaxOverrun reads past the end.
ScanStep ==
    /\ pc = "scan"
    /\ ScanContinues(packet_info.parameter, null_terminator_index)
    /\ null_terminator_index < Max(Len(packet_info.parameter), 10) + MaxOverrun
    /\ null_terminator_index' = null_terminator_index + 1
    /\ UNCHANGED <<pc, packet_info, result, outcome, cmd, kwargs, packet>>

\* line 153 false, then lines 156-161
TakeFields ==
    /\ pc = "scan"
    /\ ~ScanContinues(packet_info.parameter, null_terminator_index)
    /\ result' = BodyFields(packet_info.parameter, null_terminator_index) @@ result
    /\ pc' = "layout"
    /\ UNCHANGED <<packet_info, null_terminator_index, outcome, cmd, kwargs, packet>>

\* lines 163-172
TakeTrailing ==
    /\ pc = "layout"
    /\ LET tr == Trailing(packet_info.parameter, null_terminator_index)
       IN /\ result' = tr.fields @@ result
          /\ null_terminator_index' = null_terminator_index + tr.advance
    /\ pc' = "validate"
    /\ UNCHANGED <<packet_info, outcome, cmd, kwargs, packet>>

\* lines 174-175
RaiseValueError ==
    /\ pc = "validate"
    /\ LengthMismatch(packet_info.parameter, null_terminator_index)
    /\ pc' = "done"
    /\ outcome' = "ValueError"
    /\ UNCHANGED <<packet_info, null_terminator_index, result, cmd, kwargs, packet>>

\* line 177
ReturnResult ==
    /\ pc = "validate"
    /\ ~LengthMismatch(packet_info.parameter, null_terminator_index)
    /\ pc' = "done"
    /\ outcome' = "result"
    /\ UNCHANGED <<packet_info, null_terminator_index, result, cmd, kwargs, packet>>

----------------------------------------------------------------------------
(* Inputs of _parse_FN_at_response.                                        *)

\* the sets of at most k positions among 1..n
RECURSIVE ZeroSets(_, _)
ZeroSets(n, k) ==
    IF k = 0 THEN {{}}
    ELSE LET S == ZeroSets(n, k - 1)
         IN S \cup {Z \cup {i} : Z \in S, i \in 1..n}

\* byte strings of length n with at most MaxZeros zero bytes; every other
\* byte carries its position, so that no two slices are confused
ParamsOfLen(n) ==
    {[i \in 1..n |-> IF i \in Z THEN 0 ELSE i] : Z \in ZeroSets(n, MaxZeros)}

Params == UNION {ParamsOfLen(n) : n \in 0..MaxLen}

\* "FN", "fN", "ND", "nd"
Commands == {<<70, 78>>, <<102, 78>>, <<78, 68>>, <<110, 100>>}

Statuses == {<<0>>, <<1>>}

\* the names of the two AT-style responses, and the id the hook tests for
Ids == {"at_response", "remote_at_response", "at_remote_response"}

NoInfo == [id |-> "", command |-> <<>>, status |-> <<>>, parameter |-> <<>>]

InitParse ==
    /\ pc = "start"
    /\ packet_info \in [id : Ids, command : Commands, status : Statuses,
                        parameter : Params]
    /\ null_terminator_index = 0
    /\ result = <<>>
    /\ outcome = "running"
    /\ cmd = ""
    /\ kwargs = <<>>
    /\ packet = <<>>

----------------------------------------------------------------------------
(* The command builder that reads api_commands.  It is inherited from      *)
(* XBeeBase; it is written here from its description: each field of the    *)
(* command's schema, in order, takes the caller's value (which must have   *)
(* the declared length when one is declared), else the default, else the   *)
(* call fails; the values are concatenated with nothing in between.        *)

\* the value one field contributes: [ok, data, error]
ResolveField(field, kw) ==
    IF field.name \in DOMAIN kw
    THEN IF field.len.kind = "fixed" /\ Len(kw[field.name]) # field.len.n
         THEN [ok |-> FALSE, data |-> <<>>, error |-> "FieldLengthError"]
         ELSE [ok |-> TRUE, data |-> kw[field.name], error |-> ""]
    ELSE IF field.default # <<>>
         THEN [ok |-> TRUE, data |-> field.default[1], error |-> ""]
         ELSE [ok |-> FALSE, data |-> <<>>, error |-> "MissingRequiredField"]

\* the fields from position i on, appended to the bytes built so far
RECURSIVE BuildFrom(_, _, _, _)
BuildFrom(schema, kw, i, acc) ==
    IF i > Len(schema) THEN [ok |-> TRUE, data |-> acc, error |-> ""]
    ELSE LET r == ResolveField(schema[i], kw)
         IN IF r.ok THEN BuildFrom(schema, kw, i + 1, acc \o r.data)
            ELSE r

BuildCommand(c, kw) == BuildFrom(api_commands[c], kw, 1, <<>>)

\* the command name is no key of api_commands
BuildUnsupported ==
    /\ pc = "build"
    /\ cmd \notin DOMAIN api_commands
    /\ pc' = "done"
    /\ outcome' = "UnsupportedCommand"
    /\ UNCHANGED <<packet_info, null_terminator_index, result, cmd, kwargs, packet>>

\* a field could not be resolved
BuildFails ==
    /\ pc = "build"
    /\ cmd \in DOMAIN api_commands
    /\ ~BuildCommand(cmd, kwargs).ok
    /\ pc' = "done"
    /\ outcome' = BuildCommand(cmd, kwargs).error
    /\ UNCHANGED <<packet_info, null_terminator_index, result, cmd, kwargs, packet>>

\* every field resolved: the concatenation is returned
BuildReturns ==
    /\ pc = "build"
    /\ cmd \in DOMAIN api_commands
    /\ BuildCommand(cmd, kwargs).ok
    /\ pc' = "done"
    /\ outcome' = "packet"
    /\ packet' = BuildCommand(cmd, kwargs).data
    /\ UNCHANGED <<packet_info, null_terminator_index, result, cmd, kwargs>>

\* an optional keyword argument: o is <<>> (not given) or <<value>>
Kw(name, o) == IF o = <<>> THEN <<>> ELSE name :> o[1]

Zero8 == <<0, 0, 0, 0, 0, 0, 0, 0>>
Addr8 == <<0, 19, 162, 0, 64, 10, 1, 39>>
b_hi == <<104, 105>>

KwargsSet ==
    {Kw("dest_addr", d) @@ Kw("data", x) @@ Kw("command", c)
        @@ Kw("frame_id", f) @@ Kw("dest_addr_long", l) @@ Kw("parameter", q) :
        d \in {<<>>, <<Zero8>>, <<Addr8>>, <<b_hi>>},
        x \in {<<>>, <<b_hi>>, <<(<<>>)>>},
        c \in {<<>>, <<b_fn>>},
        f \in {<<>>, <<(<<1>>)>>},
        l \in {<<>>, <<Addr8>>},
        q \in {<<>>, <<(<<1>>)>>}}

CommandNames == {"at", "queued_at", "remote_at", "tx", "rx"}

InitBuild ==
    /\ pc = "build"
    /\ cmd \in CommandNames
    /\ kwargs \in KwargsSet
    /\ packet_info = NoInfo
    /\ null_terminator_index = 0
    /\ result = <<>>
    /\ outcome = "running"
    /\ packet = <<>>

Init == InitParse \/ InitBuild

Next ==
    \/ ReturnNone
    \/ Begin
    \/ ScanStep
    \/ TakeFields
    \/ TakeTrailing
    \/ RaiseValueError
    \/ ReturnResult
    \/ BuildUnsupported
    \/ BuildFails
    \/ BuildReturns

Spec == Init /\ [][Next]_vars

----------------------------------------------------------------------------
(* Vocabulary of the properties.  These are written on the bytes of the    *)
(* parameter directly, without Slice.                                      *)

\* the call of _parse_FN_at_response has ended, past its guard
Parsed == pc = "done" /\ outcome \in {"result", "ValueError"}

\* P holds a zero byte at some (0-based) index >= 10
HasTerminator(P) == \E i \in 10..(Len(P) - 1) : P[i + 1] = 0

\* the smallest (0-based) index >= 10 of a zero byte of P
FirstZero(P) ==
    CHOOSE i \in 10..(Len(P) - 1) :
        /\ P[i + 1] = 0
        /\ \A j \in 10..(i - 1) : P[j + 1] # 0

\* the bytes left after the fixed fields that follow the terminator
Remaining(P) == Len(P) - (FirstZero(P) + 9)

\* the w bytes of P from (0-based) offset a, as far as P has them
Bytes(P, a, w) == [i \in 1..Max(0, Min(w, Len(P) - a)) |-> P[a + i]]

\* the value under key k, or nothing when the key is absent
Get(r, k) == IF k \in DOMAIN r THEN r[k] ELSE <<>>

\* the spellings of "ND" and of "FN" in either case
SpellingsND == {<<78, 68>>, <<78, 100>>, <<110, 68>>, <<110, 100>>}
SpellingsFN == {<<70, 78>>, <<70, 110>>, <<102, 78>>, <<102, 110>>}

\* the schema stored under key k declares a post-parse rule for `field`
DeclaresHook(k, field) ==
    /\ k \in DOMAIN api_responses
    /\ api_responses[k].type = "dict"
    /\ \E i \in 1..Len(api_responses[k].parsing) :
           api_responses[k].parsing[i].field = field

----------------------------------------------------------------------------
(* Properties.                                                             *)

\* C1: for an at_response record the hook is a no-op returning None exactly
\* when the command is not "ND" (in either case) or the status is not the
\* zero byte; for "ND" with status zero it goes on to build the record.
C1_AppliesIffND ==
    (pc = "done" /\ packet_info.id = "at_response") =>
        (outcome = "None" <=>
            ~(packet_info.command \in SpellingsND /\ packet_info.status = <<0>>))

\* C2: the remote_at_response schema (key 0x97) declares the hook on its
\* parameter field, and a record named remote_at_response with an accepted
\* command and status zero is turned into a structured record by the hook.
C2_RemoteHookApplies ==
    (/\ pc = "done"
     /\ packet_info.id = "remote_at_response"
     /\ packet_info.command \in SpellingsFN
     /\ packet_info.status = <<0>>) =>
        (DeclaresHook(<<151>>, "parameter") /\ outcome = "result")

\* C3: with remaining = len(P) - (t+9): remaining 4 gives a record without
\* rssi, remaining 5 gives a record whose rssi is the last byte of P,
\* remaining 6 ends in the length-mismatch error.
C3_RssiByRemaining ==
    Parsed =>
        LET P == packet_info.parameter
        IN /\ Remaining(P) = 4 =>
                  outcome = "result" /\ "rssi" \notin DOMAIN result
           /\ Remaining(P) = 5 =>
                  /\ outcome = "result"
                  /\ "rssi" \in DOMAIN result
                  /\ result.rssi = <<P[Len(P)]>>
           /\ Remaining(P) = 6 => outcome = "ValueError"

C3_Witness ==
    /\ Parsed
    /\ outcome = "result"
    /\ Remaining(packet_info.parameter) = 5
    /\ FirstZero(packet_info.parameter) = 11
    /\ result.rssi = <<25>>

\* C4 as stated: whenever remaining is neither 4 nor 5 (0 included) the call
\* ends in the length-mismatch error.
C4_FailsUnless4Or5 ==
    (Parsed /\ Remaining(packet_info.parameter) \notin {4, 5}) =>
        outcome = "ValueError"

\* C4 amended: a record is returned only when remaining is 0, 4 or 5; for
\* every other remaining length (1..3, above 5, or P too short for the fixed
\* fields) the call ends in the length-mismatch error.
C4_FailsUnless0Or4Or5 ==
    Parsed =>
        (outcome = "ValueError" <=> Remaining(packet_info.parameter) \notin {0, 4, 5})

C4_Witness ==
    /\ Parsed
    /\ outcome = "ValueError"
    /\ Remaining(packet_info.parameter) = 1

\* C5: the terminator scan stays inside P: the index never moves past the
\* end of the parameter (a scan that finds no zero byte stops there and the
\* call fails).
C5_ScanStaysInside ==
    pc = "scan" =>
        null_terminator_index <= Max(Len(packet_info.parameter), 10)

\* C6 as stated: device_type_id and rssi are present only when remaining is
\* 5; every other returned record has neither key.
C6_OptionalKeysOnlyOn5 ==
    (Parsed /\ outcome = "result") =>
        (("device_type_id" \in DOMAIN result \/ "rssi" \in DOMAIN result)
            => Remaining(packet_info.parameter) = 5)

\* C6 amended: in a returned record rssi is present exactly when remaining
\* is 5 and device_type_id exactly when remaining is 4 or 5; with remaining
\* 0 neither key is present.
C6_OptionalKeysByLayout ==
    (Parsed /\ outcome = "result") =>
        /\ "rssi" \in DOMAIN result <=> Remaining(packet_info.parameter) = 5
        /\ "device_type_id" \in DOMAIN result
               <=> Remaining(packet_info.parameter) \in {4, 5}

C6_Witness ==
    /\ Parsed
    /\ outcome = "result"
    /\ Remaining(packet_info.parameter) = 4
    /\ "device_type_id" \in DOMAIN result
    /\ "rssi" \notin DOMAIN result

\* C7: the command table has exactly the keys at, queued_at, remote_at, tx
\* with id defaults 0x08, 0x09, 0x17, 0x10; every key of the response table
\* is one byte, the keys are exactly 0x88, 0x8A, 0x8B, 0x90, 0x95, 0x97 and
\* map to at_response, status, tx_status, rx, node_id, remote_at_response,
\* each with an ordered field structure.  The tables are class attributes
\* that no operation assigns, so this is stated of every state of a call.
C7_RegistrySurface ==
    pc \in {"start", "scan", "layout", "validate", "build", "done"} =>
        /\ DOMAIN api_commands = {"at", "queued_at", "remote_at", "tx"}
        /\ \A c \in DOMAIN api_commands : api_commands[c][1].name = "id"
        /\ api_commands.at[1].default = <<(<<8>>)>>
        /\ api_commands.queued_at[1].default = <<(<<9>>)>>
        /\ api_commands.remote_at[1].default = <<(<<23>>)>>
        /\ api_commands.tx[1].default = <<(<<16>>)>>
        /\ \A k \in DOMAIN api_responses :
               /\ Len(k) = 1
               /\ api_responses[k].type = "dict"
               /\ Len(api_responses[k].structure) > 0
        /\ DOMAIN api_responses =
               {<<136>>, <<138>>, <<139>>, <<144>>, <<149>>, <<151>>}
        /\ api_responses[<<136>>].name = "at_response"
        /\ api_responses[<<138>>].name = "status"
        /\ api_responses[<<139>>].name = "tx_status"
        /\ api_responses[<<144>>].name = "rx"
        /\ api_responses[<<149>>].name = "node_id"
        /\ api_responses[<<151>>].name = "remote_at_response"

\* C8: building tx with only dest_addr (8 bytes) and data given yields
\* 0x10, 0x00, dest_addr, 0xFF 0xFE, 0x00, 0x00, data, with nothing between.
C8_TxDefaults ==
    (/\ pc = "done"
     /\ cmd = "tx"
     /\ DOMAIN kwargs = {"dest_addr", "data"}
     /\ Len(kwargs.dest_addr) = 8) =>
        /\ outcome = "packet"
        /\ packet = <<16, 0>> \o kwargs.dest_addr \o <<255, 254, 0, 0>> \o kwargs.data

C8_Witness ==
    /\ pc = "done"
    /\ cmd = "tx"
    /\ DOMAIN kwargs = {"dest_addr", "data"}
    /\ packet = <<16, 0, 0, 0, 0, 0, 0, 0, 0, 0, 255, 254, 0, 0, 104, 105>>

\* C9: once the scan has ended, the index is the smallest index >= 10 of a
\* zero byte, and the record holds P[0:2], P[2:10], P[10:t], then from t+1
\* parent address (2), device type (1), status (1), profile id (2) and
\* manufacturer (2), the last ending at offset t+9.
C9_FieldsAroundTerminator ==
    LET P == packet_info.parameter
    IN /\ pc = "layout" =>
              /\ HasTerminator(P)
              /\ null_terminator_index = FirstZero(P)
       /\ (pc \in {"layout", "validate"} \/ Parsed) =>
              LET t == FirstZero(P)
              IN /\ result.source_addr = Bytes(P, 0, 2)
                 /\ result.source_addr_long = Bytes(P, 2, 8)
                 /\ result.node_identifier = Bytes(P, 10, t - 10)
                 /\ result.parent_address = Bytes(P, t + 1, 2)
                 /\ result.device_type = Bytes(P, t + 3, 1)
                 /\ result.status = Bytes(P, t + 4, 1)
                 /\ result.profile_id = Bytes(P, t + 5, 2)
                 /\ result.manufacturer = Bytes(P, t + 7, 2)

C9_Witness ==
    /\ Parsed
    /\ outcome = "result"
    /\ packet_info.parameter[3] = 0
    /\ FirstZero(packet_info.parameter) = 12
    /\ result.node_identifier = <<11, 12>>
    /\ result.manufacturer = <<20, 21>>

\* C10: a returned record partitions P: its fields, with one zero byte after
\* the node identifier, concatenate to P; every fixed-width field has its
\* full width; the node identifier holds no zero byte.
C10_FieldsPartitionP ==
    (Parsed /\ outcome = "result") =>
        /\ result.source_addr \o result.source_addr_long
               \o result.node_identifier \o <<0>>
               \o result.parent_address \o result.device_type
               \o result.status \o result.profile_id \o result.manufacturer
               \o Get(result, "device_type_id") \o Get(result, "rssi")
           = packet_info.parameter
        /\ Len(result.source_addr) = 2
        /\ Len(result.source_addr_long) = 8
        /\ Len(result.parent_address) = 2
        /\ Len(result.device_type) = 1
        /\ Len(result.status) = 1
        /\ Len(result.profile_id) = 2
        /\ Len(result.manufacturer) = 2
        /\ "device_type_id" \in DOMAIN result => Len(result.device_type_id) = 4
        /\ "rssi" \in DOMAIN result => Len(result.rssi) = 1
        /\ \A i \in 1..Len(result.node_identifier) : result.node_identifier[i] # 0

C10_Witness ==
    /\ Parsed
    /\ outcome = "result"
    /\ Len(result.node_identifier) = 1
    /\ "rssi" \in DOMAIN result
    /\ result.source_addr_long[4] = 0

====
